---- MODULE Spec2Model ----
(***************************************************************************)
(* Model of the JSON-RPC dispatcher and response resolver of               *)
(* packages/admin-ui/src/common/transport/jsonRpc/index.ts.                *)
(*                                                                         *)
(* JavaScript values are tagged records.  A JavaScript string is a         *)
(* sequence of tokens (pieces of text), so that concatenation is \o and    *)
(* "contains" and "replace" are computed on the text, not assumed.         *)
(***************************************************************************)
EXTENDS Integers, Sequences, FiniteSets, TLC

\* Longest params array that is enumerated.
MaxParams == 3
\* Number of overlapping calls to one dispatcher instance (SpecConc).
MaxCalls == 2
\* The generic "internal error" code.
InternalErrorCode == -32603

(***************************************************************************)
(* JavaScript values                                                       *)
(***************************************************************************)
Undefined == [t |-> "undefined"]
Null == [t |-> "null"]
Str(s) == [t |-> "string", v |-> s]
Num(n) == [t |-> "number", v |-> n]
Arr(xs) == [t |-> "array", v |-> xs]
\* A plain object; the only properties the dispatcher reads are method and
\* params, an absent property reads as undefined.
Obj(m, p) == [t |-> "object", method |-> m, params |-> p]

\* The tag of a value; the envelopes and their error objects are records
\* without a tag, and are objects.
TagOf(x) == IF "t" \in DOMAIN x THEN x.t ELSE "object"

\* typeof x
TypeOf(x) ==
  CASE TagOf(x) = "undefined" -> "undefined"
    [] TagOf(x) = "string" -> "string"
    [] TagOf(x) = "number" -> "number"
    [] OTHER -> "object"

\* ToBoolean(x), as used by !x, x || y and if (x)
Truthy(x) ==
  CASE TagOf(x) = "undefined" -> FALSE
    [] TagOf(x) = "null" -> FALSE
    [] TagOf(x) = "string" -> x.v # <<>>
    [] TagOf(x) = "number" -> x.v # 0
    [] OTHER -> TRUE

\* x || y
OrElse(x, y) == IF Truthy(x) THEN x ELSE y

\* Array.isArray(x)
IsArray(x) == x.t = "array"

\* String(x): the text of `${x}` and of x used as a property key.  An array
\* is the texts of its items joined by commas, null and undefined items
\* giving the empty text.
RECURSIVE ToText(_)
RECURSIVE JoinText(_)
JoinText(xs) ==
  IF xs = <<>>
  THEN <<>>
  ELSE LET first == IF Head(xs).t \in {"undefined", "null"}
                    THEN <<>>
                    ELSE ToText(Head(xs))
       IN IF Len(xs) = 1 THEN first ELSE first \o <<",">> \o JoinText(Tail(xs))

ToText(x) ==
  CASE x.t = "string" -> x.v
    [] x.t = "number" -> <<ToString(x.v)>>
    [] x.t = "undefined" -> <<"undefined">>
    [] x.t = "null" -> <<"null">>
    [] x.t = "array" -> JoinText(x.v)
    [] OTHER -> <<"[object Object]">>

(***************************************************************************)
(* Error objects                                                           *)
(***************************************************************************)
\* e.stack of an error built by new Error(message): its header line, which
\* holds the message, followed by the frames.
StackOf(name, message) == Str(<<name, ": ">> \o ToText(message) \o <<"\n    at <frames>">>)

\* Error(message) / new Error(message)
NewError(message) ==
  [t |-> "error", cls |-> "Error", message |-> message, stack |-> StackOf("Error", message)]

\* A TypeError raised by the runtime.
NewTypeError(message) ==
  [t |-> "error", cls |-> "TypeError", message |-> message, stack |-> StackOf("TypeError", message)]

\* class JsonRpcReqError extends Error: code = code || -32603
JsonRpcReqError(message, code) ==
  [t |-> "error", cls |-> "JsonRpcReqError", message |-> message,
   stack |-> StackOf("Error", message),
   code |-> OrElse(code, Num(InternalErrorCode))]

\* e instanceof JsonRpcReqError
IsJsonRpcReqError(e) == "cls" \in DOMAIN e /\ e.cls = "JsonRpcReqError"

\* null and undefined have no properties: reading one throws a TypeError.
IsNullish(x) == x.t \in {"undefined", "null"}

\* e.message and e.stack of a non-nullish value: undefined when the value is
\* not an error object (a thrown string, say).
MessageOf(e) == IF "message" \in DOMAIN e THEN e.message ELSE Undefined
StackProp(e) == IF "stack" \in DOMAIN e THEN e.stack ELSE Undefined

\* Results of a computation that may throw.
Ok(v) == [threw |-> FALSE, value |-> v]
Throw(e) == [threw |-> TRUE, error |-> e]

(***************************************************************************)
(* parseRpcRequest, tryToParseRpcRequest                                   *)
(***************************************************************************)
\* body.method / body.params in the destructuring of a non-null object.
Prop(body, name) ==
  IF body.t = "object"
  THEN (IF name = "method" THEN body.method ELSE body.params)
  ELSE Undefined

parseRpcRequest(body) ==
  IF TypeOf(body) # "object"
  THEN Throw(NewError(Str(<<"body request must be an object, ", TypeOf(body)>>)))
  ELSE IF body.t = "null"
  THEN Throw(NewTypeError(Str(<<"Cannot destructure property 'method' of 'body' as it is null.">>)))
  ELSE LET method == Prop(body, "method")
           params == Prop(body, "params")
       IN IF ~Truthy(method)
          THEN Throw(JsonRpcReqError(Str(<<"request body missing method">>), Undefined))
          ELSE IF ~Truthy(params)
          THEN Throw(JsonRpcReqError(Str(<<"request body missing params">>), Undefined))
          ELSE IF ~IsArray(params)
          THEN Throw(JsonRpcReqError(Str(<<"request body params must be an array">>), Undefined))
          ELSE Ok([method |-> method, params |-> params])

tryToParseRpcRequest(body) ==
  LET r == parseRpcRequest(body)
  IN IF r.threw
     THEN [method |-> Undefined, params |-> Undefined]
     ELSE r.value

(***************************************************************************)
(* The method registry: methods[method]                                    *)
(***************************************************************************)
\* The routes the registry holds as own properties.
RegisteredMethods == {<<"ping">>, <<"add">>}

\* methods[method] is a property read, so it also finds what the registry
\* object inherits from Object.prototype: functions (toString stands for
\* toString, constructor, valueOf, hasOwnProperty, ...) and, under __proto__,
\* the prototype object itself, which is truthy and not callable.
InheritedFunctions == {<<"toString">>}
InheritedObjects == {<<"__proto__">>}

\* The property read: what kind of value it yields for a property key.
MethodsGet(method) ==
  LET key == ToText(method)
  IN CASE key \in RegisteredMethods -> [kind |-> "handler", name |-> key]
       [] key \in InheritedFunctions -> [kind |-> "inheritedFunction", name |-> key]
       [] key \in InheritedObjects -> [kind |-> "inheritedObject", name |-> key]
       [] OTHER -> [kind |-> "undefined", name |-> key]

\* !handler is false: the value read from the registry is truthy.
HandlerFound(h) == h.kind # "undefined"

(***************************************************************************)
(* The compiled validator: validateParams({ [method]: params })            *)
(***************************************************************************)
IndexText(i) == "[" \o ToString(i - 1) \o "]"

\* The schema of add: an array of exactly two numbers.  ping and every
\* property the schema does not name are unconstrained.  With allErrors the
\* engine reports every violation: one for the length, one per wrong item.
SchemaErrors(method, params) ==
  IF ToText(method) # <<"add">>
  THEN <<>>
  ELSE LET n == Len(params.v)
           lengthErrors ==
             IF n < 2
             THEN <<[dataPath |-> <<".", "add">>,
                     message |-> "should NOT have fewer than 2 items"]>>
             ELSE IF n > 2
             THEN <<[dataPath |-> <<".", "add">>,
                     message |-> "should NOT have more than 2 items"]>>
             ELSE <<>>
           itemError(i) ==
             IF i <= n /\ params.v[i].t # "number"
             THEN <<[dataPath |-> <<".", "add", IndexText(i)>>,
                     message |-> "should be number"]>>
             ELSE <<>>
       IN lengthErrors \o itemError(1) \o itemError(2)

\* The call validateParams(data): its boolean result and the value it leaves
\* in validateParams.errors (null when valid).
validateParams(method, params) ==
  LET errs == SchemaErrors(method, params)
  IN [valid |-> errs = <<>>,
      errors |-> IF errs = <<>> THEN Null ELSE Arr(errs)]

(***************************************************************************)
(* formatErrors                                                            *)
(***************************************************************************)
\* ajv.errorsText(errors, { separator, dataVar }): "No errors" when the errors
\* argument is missing (null, undefined), else dataVar + dataPath + " " + message
\* of each error, joined by separator; an empty array gives the empty string.
RECURSIVE JoinErrors(_, _, _)
JoinErrors(errs, separator, dataVar) ==
  IF errs = <<>>
  THEN <<>>
  ELSE LET line == <<dataVar>> \o Head(errs).dataPath \o <<" ", Head(errs).message>>
       IN IF Len(errs) = 1
          THEN line
          ELSE line \o <<separator>> \o JoinErrors(Tail(errs), separator, dataVar)

errorsText(errors, separator, dataVar) ==
  IF ~Truthy(errors)
  THEN <<"No errors">>
  ELSE JoinErrors(errors.v, separator, dataVar)

\* One position of a regular expression against one token of text: "." matches
\* anything but a line break, every other token matches itself.
RegexTokenMatches(p, tok) == IF p = "." THEN tok # "\n" ELSE p = tok

RegexMatchesAt(text, i, pattern) ==
  /\ i + Len(pattern) - 1 <= Len(text)
  /\ \A k \in 1..Len(pattern) : RegexTokenMatches(pattern[k], text[i + k - 1])

\* text.replace(new RegExp(pattern, "g"), replacement)
RECURSIVE ReplaceFrom(_, _, _, _)
ReplaceFrom(text, i, pattern, replacement) ==
  IF i > Len(text)
  THEN <<>>
  ELSE IF RegexMatchesAt(text, i, pattern)
  THEN replacement \o ReplaceFrom(text, i + Len(pattern), pattern, replacement)
  ELSE <<text[i]>> \o ReplaceFrom(text, i + 1, pattern, replacement)

\* Mutant of ReplaceAll: the "g" flag is missing, only the first match is
\* replaced.
RECURSIVE ReplaceFirstFrom(_, _, _, _)
ReplaceFirstFrom(text, i, pattern, replacement) ==
  IF i > Len(text)
  THEN <<>>
  ELSE IF RegexMatchesAt(text, i, pattern)
  THEN replacement \o SubSeq(text, i + Len(pattern), Len(text))
  ELSE <<text[i]>> \o ReplaceFirstFrom(text, i + 1, pattern, replacement)

ReplaceFirst(text, pattern, replacement) == ReplaceFirstFrom(text, 1, pattern, replacement)

ReplaceAll(text, pattern, replacement) == ReplaceFrom(text, 1, pattern, replacement)

formatErrors(errors, method) ==
  LET dataVar == "root_prop"
      toReplace == <<dataVar, ".">> \o ToText(method)
      text == errorsText(errors, "\n", dataVar)
  IN Str(<<"Validation error:", "\n">> \o ReplaceAll(text, toReplace, <<"params">>))

(***************************************************************************)
(* parseRpcResponse and JsonRpcResError                                    *)
(***************************************************************************)
\* o.name: undefined when the object has no such property.
Field(o, name) == IF name \in DOMAIN o THEN o[name] ELSE Undefined

\* super(message): the message of the Error built, empty without a message.
ErrorMessage(message) ==
  IF message.t = "undefined" THEN Str(<<>>) ELSE Str(ToText(message))

\* The stack the engine gives an error built in the resolver: the header
\* line, which holds the message if there is one, followed by the frames.
LocalStack(message) ==
  Str((IF message.v = <<>> THEN <<"Error">> ELSE <<"Error", ": ">> \o message.v)
        \o <<"\n    at parseRpcResponse">>)

\* class JsonRpcResError extends Error:
\* code = jsonRpcError?.code || -32603, data = jsonRpcError?.data
JsonRpcResError(jsonRpcError) ==
  [t |-> "error", cls |-> "JsonRpcResError",
   message |-> ErrorMessage(Field(jsonRpcError, "message")),
   stack |-> LocalStack(ErrorMessage(Field(jsonRpcError, "message"))),
   code |-> OrElse(Field(jsonRpcError, "code"), Num(InternalErrorCode)),
   data |-> Field(jsonRpcError, "data")]

\* Mutant of IsErrorResponse: an error is ignored when a result is present.
IsErrorResponseUnlessResult(body) ==
  Truthy(Field(body, "error")) /\ "result" \notin DOMAIN body

\* if (body.error)
IsErrorResponse(body) == Truthy(Field(body, "error"))

\* Mutant of ResultOf: return body.result || null.
ResultOrNull(body) == OrElse(Field(body, "result"), Null)

\* return body.result
ResultOf(body) == Field(body, "result")

\* Mutant of JoinStacks: the local stack is put first.
JoinStacksLocalFirst(remote, localStack) ==
  OrElse(Str(localStack.v \o <<"\n">> \o remote.v), Str(<<>>))

\* body.error.data + "\n" + error.stack || "": the sum binds tighter than ||.
JoinStacks(remote, localStack) ==
  OrElse(Str(remote.v \o <<"\n">> \o localStack.v), Str(<<>>))

\* The async function settles: Ok is the promise fulfilled, Throw rejected.
parseRpcResponse(body) ==
  IF IsErrorResponse(body)
  THEN LET error == JsonRpcResError(body.error)
           data == Field(body.error, "data")
       IN IF TypeOf(data) = "string"
          THEN Throw([error EXCEPT !.stack = JoinStacks(data, error.stack)])
          ELSE Throw(error)
  ELSE Ok(ResultOf(body))

(***************************************************************************)
(* State of one dispatcher instance and of the calls made to it            *)
(***************************************************************************)
VARIABLES
  loggerMiddleware, \* the callbacks the dispatcher was constructed with
  validateErrors,   \* validateParams.errors, one property shared by all calls
  pc,               \* per call: "idle", "awaiting" (suspended at the await), "done"
  body,             \* per call: the raw request
  local,            \* per call: the locals handler, method, params kept across the await
  events,           \* per call: what the call invoked so far, in order
  response,         \* per call: pending, or how the returned promise settled
  received,         \* per call: the envelope handed to parseRpcResponse
  resolved          \* per call: how parseRpcResponse settled, once called

vars == <<loggerMiddleware, validateErrors, pc, body, local, events, response,
          received, resolved>>

Calls == 1..MaxCalls

Pending == [status |-> "pending"]
Returned(envelope) == [status |-> "returned", envelope |-> envelope]
Rejected(reason) == [status |-> "rejected", reason |-> reason]

\* parseRpcResponse was not called (yet).
NotResolved == [called |-> FALSE]

NoLocal == [handler |-> [kind |-> "undefined", name |-> <<>>],
            method |-> Undefined, params |-> Undefined]

\* What a throwing lifecycle callback throws.
CallbackError(name) == NewError(Str(<<name, " failed">>))

(***************************************************************************)
(* The envelopes the dispatcher builds                                     *)
(***************************************************************************)
\* Mutant of ResultEnvelope: an error field is set beside the result.
ResultEnvelopeWithError(result) == [result |-> result, error |-> Null]

\* return { result }
ResultEnvelope(result) == [result |-> result]

\* Mutant of ReqErrorEnvelope: the stack is sent with a request-format error.
ReqErrorEnvelopeWithData(e) ==
  [error |-> [code |-> e.code, message |-> e.message, data |-> e.stack]]

\* return { error: { code: e.code, message: e.message } }
ReqErrorEnvelope(e) == [error |-> [code |-> e.code, message |-> e.message]]

\* return { error: { code: -32603, message: e.message, data: e.stack } }
UnexpectedEnvelope(e) ==
  [error |-> [code |-> Num(InternalErrorCode), message |-> MessageOf(e),
              data |-> StackProp(e)]]

(***************************************************************************)
(* The dispatcher: the function returned by getRpcHandler                  *)
(***************************************************************************)
\* Mutant of SpreadArgs: handler(params), the array passed as one argument.
SpreadArgsAsOne(params) == <<params>>

\* handler(...params): the argument list of the call.
SpreadArgs(params) == params.v

\* Mutant of ErrorsProperty: the value the property held before this call's
\* validation is the one reported.
ErrorsPropertyStale(before, written) == before

\* validateParams.errors as read right after validateParams(...) returned, in
\* the same synchronous run: the value that call wrote.
ErrorsProperty(before, written) == written

OnCallEvent(method, params) == [ev |-> "onCall", method |-> method, params |-> params]
ValidateEvent(method, params, valid) ==
  [ev |-> "validate", method |-> method, params |-> params, valid |-> valid]
HandlerEvent(name, args) == [ev |-> "handler", name |-> name, args |-> args]
OnSuccessEvent(method, result, params) ==
  [ev |-> "onSuccess", method |-> method, result |-> result, params |-> params]
OnErrorEvent(method, error, params) ==
  [ev |-> "onError", method |-> method, error |-> error, params |-> params]
\* Not an invocation: the callback just invoked threw.
ThrewEvent(name) == [ev |-> "threw", by |-> name]
\* Not an invocation: the awaited handler call settled with outcome out.
SettledEvent(out) == [ev |-> "settled", out |-> out]

\* The try block up to the await: either it throws, or it has invoked the
\* handler and suspends.  errsBefore is validateParams.errors on entry.
TrySync(b, cfg, onCallThrows, errsBefore) ==
  LET parsed == parseRpcRequest(b)
  IN IF parsed.threw
     THEN [events |-> <<>>, errors |-> errsBefore, threw |-> TRUE, error |-> parsed.error]
     ELSE
       LET method == parsed.value.method
           params == parsed.value.params
           handler == MethodsGet(method)
           called == IF "onCall" \in cfg THEN <<OnCallEvent(method, params)>> ELSE <<>>
           checked == validateParams(method, params)
           validated == called \o <<ValidateEvent(method, params, checked.valid)>>
       IN IF ~HandlerFound(handler)
          THEN [events |-> <<>>, errors |-> errsBefore, threw |-> TRUE,
                error |-> JsonRpcReqError(Str(<<"Method not found ">> \o ToText(method)),
                                          Undefined)]
          ELSE IF "onCall" \in cfg /\ onCallThrows
          THEN [events |-> called \o <<ThrewEvent("onCall")>>,
                errors |-> errsBefore, threw |-> TRUE,
                error |-> CallbackError("onCall")]
          ELSE IF ~checked.valid
          THEN [events |-> validated, errors |-> checked.errors, threw |-> TRUE,
                error |-> JsonRpcReqError(
                            formatErrors(ErrorsProperty(errsBefore, checked.errors), method),
                            Undefined)]
          ELSE IF handler.kind = "inheritedObject"
          THEN [events |-> validated, errors |-> checked.errors, threw |-> TRUE,
                error |-> NewTypeError(Str(<<"handler is not a function">>))]
          ELSE [events |-> validated \o <<HandlerEvent(handler.name, SpreadArgs(params))>>,
                errors |-> checked.errors, threw |-> FALSE,
                local |-> [handler |-> handler, method |-> method, params |-> params]]

\* The catch block, entered with the caught value e.
Catch(e, b, cfg, onErrorThrows) ==
  IF IsJsonRpcReqError(e)
  THEN [events |-> <<>>, response |-> Returned(ReqErrorEnvelope(e))]
  ELSE
    LET again == tryToParseRpcRequest(b)
        logged ==
          IF "onError" \in cfg
          THEN <<OnErrorEvent(OrElse(again.method, Str(<<"unknown-method">>)), e,
                              OrElse(again.params, Arr(<<>>)))>>
          ELSE <<>>
    IN IF "onError" \in cfg /\ onErrorThrows
       THEN [events |-> logged \o <<ThrewEvent("onError")>>,
             response |-> Rejected(CallbackError("onError"))]
       ELSE IF IsNullish(e)
       THEN [events |-> logged,
             response |-> Rejected(NewTypeError(
                Str(<<"Cannot read properties of ", e.t, " (reading 'message')">>)))]
       ELSE [events |-> logged, response |-> Returned(UnexpectedEnvelope(e))]

\* The rest of the try block, resumed when the awaited handler has settled
\* with outcome out.
Resume(out, l, b, cfg, onSuccessThrows, onErrorThrows) ==
  IF out.k = "reject"
  THEN LET c == Catch(out.error, b, cfg, onErrorThrows)
       IN [events |-> <<SettledEvent(out)>> \o c.events, response |-> c.response]
  ELSE
    LET observed ==
          <<SettledEvent(out)>> \o
          (IF "onSuccess" \in cfg
           THEN <<OnSuccessEvent(l.method, out.value, l.params)>>
           ELSE <<>>)
    IN IF "onSuccess" \in cfg /\ onSuccessThrows
       THEN LET c == Catch(CallbackError("onSuccess"), b, cfg, onErrorThrows)
            IN [events |-> observed \o <<ThrewEvent("onSuccess")>> \o c.events,
                response |-> c.response]
       ELSE [events |-> observed, response |-> Returned(ResultEnvelope(out.value))]

(***************************************************************************)
(* Inputs                                                                  *)
(***************************************************************************)
Callbacks == {"onCall", "onSuccess", "onError"}

ParamItems == {Num(2), Num(3), Str(<<"x">>)}
ParamArrays == {Arr(xs) : xs \in UNION {[1..n -> ParamItems] : n \in 0..MaxParams}}

MethodValues ==
  {Undefined, Str(<<>>), Num(5), Str(<<"ping">>), Str(<<"add">>), Str(<<"nope">>),
   Str(<<"toString">>), Str(<<"__proto__">>), Arr(<<Str(<<"add">>)>>)}
ParamsValues == {Undefined, Num(0), Obj(Undefined, Undefined)} \cup ParamArrays

Bodies ==
  {Undefined, Null, Str(<<"ping">>), Num(7), Arr(<<>>)}
    \cup {Obj(m, p) : m \in MethodValues, p \in ParamsValues}

\* What a registered handler may resolve with, and what it may throw.
ResultValues == {Str(<<"pong">>), Num(5), Undefined}
ThrownValues == {NewError(Str(<<"kaboom">>)), Str(<<"oops">>), Undefined}

\* The ways the awaited call can settle.  Object.prototype.toString called
\* without a receiver returns "[object Undefined]".
HandlerOutcomes(handler) ==
  IF handler.kind = "handler"
  THEN {[k |-> "resolve", value |-> v] : v \in ResultValues}
         \cup {[k |-> "reject", error |-> e] : e \in ThrownValues}
  ELSE {[k |-> "resolve", value |-> Str(<<"[object Undefined]">>)]}

(***************************************************************************)
(* Actions                                                                 *)
(***************************************************************************)
Init ==
  /\ loggerMiddleware \in SUBSET Callbacks
  /\ validateErrors = Null
  /\ pc = [c \in Calls |-> "idle"]
  /\ body = [c \in Calls |-> Undefined]
  /\ local = [c \in Calls |-> NoLocal]
  /\ events = [c \in Calls |-> <<>>]
  /\ response = [c \in Calls |-> Pending]
  /\ received = [c \in Calls |-> Undefined]
  /\ resolved = [c \in Calls |-> NotResolved]

\* handle(b) is called: the synchronous run up to the await, or to the return
\* from the catch block.
Call(c, b) ==
  /\ pc[c] = "idle"
  /\ \E onCallThrows \in BOOLEAN, onErrorThrows \in BOOLEAN :
       LET t == TrySync(b, loggerMiddleware, onCallThrows, validateErrors)
       IN /\ body' = [body EXCEPT ![c] = b]
          /\ validateErrors' = t.errors
          /\ IF t.threw
             THEN LET k == Catch(t.error, b, loggerMiddleware, onErrorThrows)
                  IN /\ pc' = [pc EXCEPT ![c] = "done"]
                     /\ events' = [events EXCEPT ![c] = t.events \o k.events]
                     /\ response' = [response EXCEPT ![c] = k.response]
                     /\ local' = local
             ELSE /\ pc' = [pc EXCEPT ![c] = "awaiting"]
                  /\ events' = [events EXCEPT ![c] = t.events]
                  /\ local' = [local EXCEPT ![c] = t.local]
                  /\ response' = response
  /\ UNCHANGED <<loggerMiddleware, received, resolved>>

\* The awaited handler settles and the call runs to its end.
Settle(c) ==
  /\ pc[c] = "awaiting"
  /\ \E out \in HandlerOutcomes(local[c].handler),
        onSuccessThrows \in BOOLEAN, onErrorThrows \in BOOLEAN :
       LET r == Resume(out, local[c], body[c], loggerMiddleware,
                       onSuccessThrows, onErrorThrows)
       IN /\ pc' = [pc EXCEPT ![c] = "done"]
          /\ events' = [events EXCEPT ![c] = events[c] \o r.events]
          /\ response' = [response EXCEPT ![c] = r.response]
  /\ UNCHANGED <<loggerMiddleware, validateErrors, body, local, received, resolved>>

\* The client calls parseRpcResponse(env).
ResolveWith(c, env) ==
  /\ resolved[c] = NotResolved
  /\ received' = [received EXCEPT ![c] = env]
  /\ resolved' = [resolved EXCEPT ![c] = parseRpcResponse(env)]
  /\ UNCHANGED <<loggerMiddleware, validateErrors, pc, body, local, events, response>>

\* The envelope a call returned reaches the client, which resolves it.
Resolve(c) ==
  /\ pc[c] = "done"
  /\ response[c].status = "returned"
  /\ ResolveWith(c, response[c].envelope)

Next ==
  \/ \E b \in Bodies : Call(1, b)
  \/ Settle(1)
  \/ Resolve(1)

Spec == Init /\ [][Next]_vars

\* Overlapping calls to the one instance: a call runs from its start to the
\* await, or from the await to its end, without interruption; between the two
\* any other call may run.
ConcBodies ==
  {Obj(Str(<<"add">>), Arr(<<Num(2), Num(3)>>)),
   Obj(Str(<<"add">>), Arr(<<Str(<<"x">>), Num(3)>>)),
   Obj(Str(<<"add">>), Arr(<<Num(2)>>)),
   Obj(Str(<<"ping">>), Arr(<<>>)),
   Num(7)}

NextConc ==
  \/ \E c \in Calls : \E b \in ConcBodies : Call(c, b)
  \/ \E c \in Calls : Settle(c)

SpecConc == Init /\ [][NextConc]_vars

\* The resolver on its own: parseRpcResponse is exported and takes whatever
\* envelope the transport hands it.
EnvelopeResults ==
  {Undefined, Null, Num(0), Num(5), Str(<<>>), Str(<<"pong">>),
   Arr(<<Num(2), Str(<<"x">>)>>), Obj(Str(<<"ping">>), Arr(<<>>))}
EnvelopeCodes == {Num(n) : n \in {InternalErrorCode, -32601, -1, 0, 1, 404}}
EnvelopeMessages == {Str(<<>>), Str(<<"kaboom">>)}
EnvelopeData ==
  {Str(<<>>), Str(<<"Error", ": ", "kaboom", "\n    at remote">>), Num(7), Null,
   Arr(<<Str(<<"x">>)>>)}
EnvelopeErrors ==
  {[code |-> k, message |-> m] : k \in EnvelopeCodes, m \in EnvelopeMessages}
    \cup {[code |-> k, message |-> m, data |-> d] :
            k \in EnvelopeCodes, m \in EnvelopeMessages, d \in EnvelopeData}
Envelopes ==
  {[result |-> v] : v \in EnvelopeResults}
    \cup {[error |-> e] : e \in EnvelopeErrors}
    \cup {[result |-> v, error |-> e] : v \in EnvelopeResults, e \in EnvelopeErrors}
    \cup {[x \in {} |-> Undefined]}

InitResolve == Init /\ loggerMiddleware = {}

ResolveAny(c) == \E env \in Envelopes : ResolveWith(c, env)

NextResolve == ResolveAny(1)

SpecResolve == InitResolve /\ [][NextResolve]_vars

(***************************************************************************)
(* Properties                                                              *)
(***************************************************************************)
EventsOf(c, kind) == SelectSeq(events[c], LAMBDA e : e.ev = kind)

HasReturned(c) == response[c].status = "returned"
EnvelopeOf(c) == response[c].envelope
IsErrorEnvelope(env) == "error" \in DOMAIN env
HasData(env) == "data" \in DOMAIN env.error

\* The text holds the piece as a run of consecutive tokens.
Contains(text, piece) ==
  \E i \in 1..(Len(text) - Len(piece) + 1) : SubSeq(text, i, i + Len(piece) - 1) = piece

CountToken(text, tok) == Cardinality({i \in 1..Len(text) : text[i] = tok})

\* The request parsed: a non-null object with a truthy method and an array
\* of params.
WellFormed(b) == ~parseRpcRequest(b).threw

\* The call's validation ran and accepted / refused the params.
ValidationPassed(c) == \E i \in 1..Len(events[c]) :
  events[c][i].ev = "validate" /\ events[c][i].valid
ValidationFailed(c) == \E i \in 1..Len(events[c]) :
  events[c][i].ev = "validate" /\ ~events[c][i].valid

\* C1: no call of the dispatcher ends by rejecting: whatever the request, the
\* handler and the callbacks do, a call that completes returns an envelope.
C1_NeverRejects == \A c \in Calls : response[c].status # "rejected"

\* C2: every returned envelope carries exactly one of result and error.
C2_ResultXorError == \A c \in Calls :
  HasReturned(c) =>
    (("result" \in DOMAIN EnvelopeOf(c)) # ("error" \in DOMAIN EnvelopeOf(c)))

C2_Witness == \E c \in Calls :
  /\ HasReturned(c)
  /\ IsErrorEnvelope(EnvelopeOf(c))
  /\ HasData(EnvelopeOf(c))
  /\ EventsOf(c, "settled") # <<>>

\* C3: a request that parsed, names a registered method and passed schema
\* validation has its handler invoked exactly once, with the request's params
\* as the arguments, in order; and no call invokes a handler twice.
C3_HandlerInvokedOnce == \A c \in Calls :
  /\ Len(EventsOf(c, "handler")) <= 1
  /\ (/\ pc[c] # "idle"
      /\ WellFormed(body[c])
      /\ ToText(body[c].method) \in RegisteredMethods
      /\ ValidationPassed(c))
     => /\ Len(EventsOf(c, "handler")) = 1
        /\ EventsOf(c, "handler")[1].name = ToText(body[c].method)
        /\ Len(EventsOf(c, "handler")[1].args) = Len(body[c].params.v)
        /\ \A i \in 1..Len(body[c].params.v) :
             EventsOf(c, "handler")[1].args[i] = body[c].params.v[i]

C3_Witness == \E c \in Calls :
  /\ pc[c] = "awaiting"
  /\ body[c] = Obj(Str(<<"add">>), Arr(<<Num(3), Num(2)>>))
  /\ ValidationPassed(c)

\* C4: when the handler succeeds with V the call returns { result: V },
\* onSuccess (if configured) is invoked exactly once with (method, V, params),
\* and onError not at all.
C4_SuccessEnvelope == \A c \in Calls :
  \A i \in 1..Len(events[c]) :
    (events[c][i].ev = "settled" /\ events[c][i].out.k = "resolve")
      => /\ response[c] = Returned([result |-> events[c][i].out.value])
         /\ EventsOf(c, "onError") = <<>>
         /\ EventsOf(c, "onSuccess") =
              (IF "onSuccess" \in loggerMiddleware
               THEN <<OnSuccessEvent(body[c].method, events[c][i].out.value,
                                     body[c].params)>>
               ELSE <<>>)

\* C5: when the handler throws an error object the call returns
\* { error: { code: -32603, message, data: stack } } and onError (if
\* configured) is invoked exactly once with the request's method, the
\* thrown error and the request's params.
C5_HandlerErrorEnvelope == \A c \in Calls :
  \A i \in 1..Len(events[c]) :
    (/\ events[c][i].ev = "settled"
     /\ events[c][i].out.k = "reject"
     /\ events[c][i].out.error.t = "error")
      => /\ response[c] =
              Returned([error |-> [code |-> Num(InternalErrorCode),
                                   message |-> events[c][i].out.error.message,
                                   data |-> events[c][i].out.error.stack]])
         /\ EventsOf(c, "onError") =
              (IF "onError" \in loggerMiddleware
               THEN <<OnErrorEvent(body[c].method, events[c][i].out.error,
                                   body[c].params)>>
               ELSE <<>>)

\* The request is an object that lacks method, lacks params, or whose params
\* is not an array.
MissingField(b) ==
  /\ b.t \in {"object", "array"}
  /\ \/ ~Truthy(Prop(b, "method"))
     \/ ~Truthy(Prop(b, "params"))
     \/ ~IsArray(Prop(b, "params"))

\* C6: a request missing method or params, or with params not an array, is
\* answered by an error envelope without data, and onError is not invoked.
C6_MalformedNoData == \A c \in Calls :
  (pc[c] # "idle" /\ MissingField(body[c]))
    => /\ HasReturned(c)
       /\ IsErrorEnvelope(EnvelopeOf(c))
       /\ ~HasData(EnvelopeOf(c))
       /\ EventsOf(c, "onError") = <<>>

C6_Witness == \E c \in Calls :
  /\ pc[c] = "done"
  /\ body[c] = Obj(Str(<<"ping">>), Obj(Undefined, Undefined))
  /\ "onError" \in loggerMiddleware

\* C7: a raw request that is not an object (a string, a number, undefined)
\* is answered by an error envelope without data, and onError is not invoked.
C7_NonObjectNoData == \A c \in Calls :
  (pc[c] # "idle" /\ TypeOf(body[c]) # "object")
    => /\ HasReturned(c)
       /\ IsErrorEnvelope(EnvelopeOf(c))
       /\ ~HasData(EnvelopeOf(c))
       /\ EventsOf(c, "onError") = <<>>

\* C8: a well-formed request whose method is not a key of the registry is
\* answered by an error envelope without data whose message contains the
\* method name.
C8_UnknownMethodNamed == \A c \in Calls :
  (/\ pc[c] = "done"
   /\ WellFormed(body[c])
   /\ ToText(body[c].method) \notin RegisteredMethods)
    => /\ HasReturned(c)
       /\ IsErrorEnvelope(EnvelopeOf(c))
       /\ ~HasData(EnvelopeOf(c))
       /\ Contains(EnvelopeOf(c).error.message.v, ToText(body[c].method))

\* C9: when the params fail schema validation the call returns an error
\* envelope whose message begins with "Validation error:", names "params" at
\* least once per violation and nowhere names root_prop.<method>.
C9_ValidationMessage == \A c \in Calls :
  ValidationFailed(c)
    => /\ HasReturned(c)
       /\ IsErrorEnvelope(EnvelopeOf(c))
       /\ LET text == EnvelopeOf(c).error.message.v
              violations == SchemaErrors(body[c].method, body[c].params)
          IN /\ text[1] = "Validation error:"
             /\ violations # <<>>
             /\ CountToken(text, "params") >= Len(violations)
             /\ CountToken(text, "root_prop") = 0
             /\ ~Contains(text, <<"root_prop", ".">> \o ToText(body[c].method))

C9_Witness == \E c \in Calls :
  /\ ValidationFailed(c)
  /\ HasReturned(c)
  /\ Len(SchemaErrors(body[c].method, body[c].params)) >= 2

\* What one call of a fresh dispatcher instance can do with request b when no
\* other call is made: its invocations and its answer, at the await and at
\* its end.
SoloAtAwait(b, cfg) ==
  {[pc |-> "awaiting", events |-> t.events, response |-> Pending] :
     t \in {u \in {TrySync(b, cfg, x, Null) : x \in BOOLEAN} : ~u.threw}}

SoloEndedEarly(b, cfg) ==
  {[pc |-> "done", events |-> r.t.events \o r.k.events, response |-> r.k.response] :
     r \in {[t |-> u, k |-> Catch(u.error, b, cfg, y)] :
              u \in {v \in {TrySync(b, cfg, x, Null) : x \in BOOLEAN} : v.threw},
              y \in BOOLEAN}}

SoloEndedLate(b, cfg) ==
  {[pc |-> "done", events |-> r.t.events \o r.k.events, response |-> r.k.response] :
     r \in UNION {{[t |-> u, k |-> Resume(out, u.local, b, cfg, x, y)] :
                     out \in HandlerOutcomes(u.local.handler),
                     x \in BOOLEAN, y \in BOOLEAN} :
                  u \in {v \in {TrySync(b, cfg, x, Null) : x \in BOOLEAN} : ~v.threw}}}

SoloRuns(b, cfg) ==
  SoloAtAwait(b, cfg) \cup SoloEndedEarly(b, cfg) \cup SoloEndedLate(b, cfg)

\* C10: however overlapping calls interleave, each call invokes what it
\* would invoke alone and returns what it would return alone, and a call
\* refused by validation reports the violations of its own params.
C10_CallsDoNotInterfere == \A c \in Calls :
  pc[c] # "idle"
    => /\ [pc |-> pc[c], events |-> events[c], response |-> response[c]]
            \in SoloRuns(body[c], loggerMiddleware)
       /\ ValidationFailed(c)
            => /\ HasReturned(c)
               /\ EnvelopeOf(c).error.message =
                    formatErrors(Arr(SchemaErrors(body[c].method, body[c].params)),
                                 body[c].method)

\* One call ran to its end, refused by validation, while another call that
\* was made with other params is suspended at its await.
C10_Witness == \E c \in Calls : \E d \in Calls \ {c} :
  /\ pc[c] = "awaiting"
  /\ pc[d] = "done"
  /\ ValidationFailed(d)
  /\ validateErrors # Null

(***************************************************************************)
(* The resolver                                                            *)
(***************************************************************************)
WasResolved(c) == resolved[c] # NotResolved

\* C11: for a success envelope { result: V } without error, parseRpcResponse
\* returns V unchanged.
C11_ResultUnchanged == \A c \in Calls :
  (/\ WasResolved(c)
   /\ "result" \in DOMAIN received[c]
   /\ "error" \notin DOMAIN received[c])
    => /\ ~resolved[c].threw
       /\ resolved[c].value = received[c].result

C11_Witness == \E c \in Calls :
  /\ WasResolved(c)
  /\ received[c] = [result |-> Num(0)]

\* C12: for an error envelope { error: { code, message } } without data, the
\* error thrown by parseRpcResponse has the envelope's code and message,
\* whatever the integer code.
C12_CodeAndMessageKept == \A c \in Calls :
  (/\ WasResolved(c)
   /\ "error" \in DOMAIN received[c]
   /\ "result" \notin DOMAIN received[c]
   /\ "data" \notin DOMAIN received[c].error)
    => /\ resolved[c].threw
       /\ resolved[c].error.code = received[c].error.code
       /\ resolved[c].error.message = received[c].error.message

\* C13: parseRpcResponse throws exactly when the envelope has an error field,
\* whether or not it has a result; without an error it returns
\* envelope.result, undefined when that is absent too.
C13_ThrowsIffError == \A c \in Calls :
  WasResolved(c)
    => /\ resolved[c].threw <=> "error" \in DOMAIN received[c]
       /\ resolved[c].threw => resolved[c].error.cls = "JsonRpcResError"
       /\ "error" \notin DOMAIN received[c]
            => resolved[c].value =
                 (IF "result" \in DOMAIN received[c]
                  THEN received[c].result
                  ELSE Undefined)

C13_Witness == \E c \in Calls :
  /\ WasResolved(c)
  /\ "error" \in DOMAIN received[c]
  /\ "result" \in DOMAIN received[c]
  /\ Truthy(received[c].result)

\* C14: for an error envelope whose data is a string the thrown error's stack
\* is that string, a line break, then the resolver's own stack; when data is
\* absent or not a string it is the resolver's own stack alone.
C14_StackRemoteThenLocal == \A c \in Calls :
  (WasResolved(c) /\ "error" \in DOMAIN received[c])
    => LET remote == Field(received[c].error, "data")
           own == LocalStack(received[c].error.message).v
           stack == resolved[c].error.stack.v
       IN IF remote.t = "string"
          THEN /\ stack = remote.v \o <<"\n">> \o own
               /\ Contains(stack, remote.v)
               /\ Contains(stack, own)
          ELSE stack = own

C14_Witness == \E c \in Calls :
  /\ WasResolved(c)
  /\ "error" \in DOMAIN received[c]
  /\ "data" \in DOMAIN received[c].error
  /\ received[c].error.data.t = "string"
  /\ received[c].error.data.v # <<>>

(***************************************************************************)
(* The dispatcher's callbacks, and the two sides composed                  *)
(***************************************************************************)
\* Event i of call c comes before every validation and handler invocation.
BeforeValidationAndHandler(c, i) ==
  \A j \in 1..Len(events[c]) : events[c][j].ev \in {"validate", "handler"} => i < j

\* C15: onCall is invoked at most once per call, only for a request that
\* parsed and names a method of the registry, and before the validation and
\* the handler; it is invoked for a request that validation then refuses.
C15_OnCallOrder == \A c \in Calls :
  /\ Len(EventsOf(c, "onCall")) <= 1
  /\ \A i \in 1..Len(events[c]) :
       events[c][i].ev = "onCall"
         => /\ WellFormed(body[c])
            /\ ToText(body[c].method) \in RegisteredMethods
            /\ events[c][i] = OnCallEvent(body[c].method, body[c].params)
            /\ BeforeValidationAndHandler(c, i)
  /\ (ValidationFailed(c) /\ "onCall" \in loggerMiddleware)
       => Len(EventsOf(c, "onCall")) = 1

\* The failures the spec calls request-format: the request does not parse,
\* names no handler, or its params are refused by the schema.
RequestFormatFailure(c) ==
  \/ ~WellFormed(body[c])
  \/ ~HandlerFound(MethodsGet(body[c].method))
  \/ ValidationFailed(c)

\* The call ended otherwise than by returning a result.
Failed(c) ==
  pc[c] = "done" /\ ~(HasReturned(c) /\ "result" \in DOMAIN EnvelopeOf(c))

\* C16: with onError configured, a returned error envelope carries data if
\* and only if onError was invoked for the call; a request-format failure
\* gives no data and no onError call, every other failure gives data and
\* exactly one onError call.
C16_DataIffOnError == \A c \in Calls :
  (pc[c] = "done" /\ "onError" \in loggerMiddleware)
    => /\ (HasReturned(c) /\ IsErrorEnvelope(EnvelopeOf(c)))
            => (HasData(EnvelopeOf(c)) <=> EventsOf(c, "onError") # <<>>)
       /\ (Failed(c) /\ RequestFormatFailure(c))
            => /\ HasReturned(c)
               /\ ~HasData(EnvelopeOf(c))
               /\ EventsOf(c, "onError") = <<>>
       /\ (Failed(c) /\ ~RequestFormatFailure(c))
            => /\ HasReturned(c)
               /\ HasData(EnvelopeOf(c))
               /\ Len(EventsOf(c, "onError")) = 1

\* C17: a call that ran to its end, its handler settled or never reached,
\* has returned an envelope, and a call whose handler has not settled has
\* returned nothing.
C17_EndedCallReturned == \A c \in Calls :
  /\ pc[c] = "done" => HasReturned(c)
  /\ pc[c] = "awaiting" => response[c] = Pending

\* C18: a handler is invoked only for a request that parsed, names a
\* registered method and whose params the schema accepts, and only after
\* the validation of those params for that method has passed.
C18_HandlerOnlyAfterValidation == \A c \in Calls :
  \A i \in 1..Len(events[c]) :
    events[c][i].ev = "handler"
      => /\ WellFormed(body[c])
         /\ ToText(body[c].method) \in RegisteredMethods
         /\ SchemaErrors(body[c].method, body[c].params) = <<>>
         /\ \E j \in 1..(i - 1) :
              events[c][j] = ValidateEvent(body[c].method, body[c].params, TRUE)

\* C19: when onCall or onSuccess throws, the call returns the error envelope
\* with code -32603 and the callback error's message and stack, and onError
\* (if configured) is invoked once with the request's method and params.
C19_CallbackFailureReported == \A c \in Calls :
  \A i \in 1..Len(events[c]) :
    (/\ pc[c] = "done"
     /\ events[c][i].ev = "threw"
     /\ events[c][i].by \in {"onCall", "onSuccess"})
      => /\ response[c] =
              Returned([error |-> [code |-> Num(InternalErrorCode),
                                   message |-> CallbackError(events[c][i].by).message,
                                   data |-> CallbackError(events[c][i].by).stack]])
         /\ EventsOf(c, "onError") =
              (IF "onError" \in loggerMiddleware
               THEN <<OnErrorEvent(body[c].method, CallbackError(events[c][i].by),
                                   body[c].params)>>
               ELSE <<>>)

\* The handler of call c was invoked and succeeded with v.
HandlerSucceededWith(c, v) == \E i \in 1..Len(events[c]) :
  /\ events[c][i].ev = "settled"
  /\ events[c][i].out.k = "resolve"
  /\ events[c][i].out.value = v

HandlerSucceeded(c) == \E i \in 1..Len(events[c]) :
  events[c][i].ev = "settled" /\ events[c][i].out.k = "resolve"

\* C20: parseRpcResponse applied to the envelope a call returned returns V
\* exactly when the handler was invoked and succeeded with V; otherwise it
\* throws an error with the code and message of the envelope's error, the
\* code being -32603.
C20_RoundTrip == \A c \in Calls :
  WasResolved(c)
    => /\ HandlerSucceeded(c)
            => /\ ~resolved[c].threw
               /\ HandlerSucceededWith(c, resolved[c].value)
       /\ ~HandlerSucceeded(c)
            => /\ resolved[c].threw
               /\ resolved[c].error.code = EnvelopeOf(c).error.code
               /\ resolved[c].error.message = EnvelopeOf(c).error.message
               /\ resolved[c].error.code = Num(InternalErrorCode)

====
